---- MODULE Spec2Model ----
(***************************************************************************)
(* Brigade conformance service (Express routes over a Supabase store).     *)
(* Every route handler is a sequence of steps, one per `await` on a store  *)
(* call; the store tables are shared by all requests in flight.            *)
(*                                                                         *)
(* JavaScript values: the booleans of a checklist are the strings "true",  *)
(* "false" and "null" (an expression `x && y` yields x itself when x is    *)
(* falsy, so a field can hold null where a boolean was meant).             *)
(* A store call resolves to {data, error}; it never rejects.               *)
(***************************************************************************)
EXTENDS Integers, Sequences, FiniteSets, TLC

\* ---------------------------------------------------------------- bounds
MaxReqs == 2          \* requests in flight at once
MaxPeticiones == 2    \* requests accepted in one behaviour
MaxFallos == 1        \* store calls that fail in one behaviour
MaxUsuarios == 5      \* rows of table usuarios
MaxFilasEquipos == 3  \* rows of table equipos_brigada

Reqs == 1..MaxReqs
Usuarios == 1..MaxUsuarios
UsuarioAusente == 0
BrigadaIds == {"b1", "b2"}
Identidades == {"v1"}
NombresEquipo == {"gps", "cinta", "extra"}

\* ------------------------------------------------------ JavaScript values
Null == [null |-> TRUE]
Dato(v) == [null |-> FALSE, v |-> v]
Bool(b) == IF b THEN "true" ELSE "false"
Truthy(x) == x = "true"
\* a && b
JsAnd(a, b) == IF Truthy(a) THEN b ELSE a
\* a || b
JsOr(a, b) == IF Truthy(a) THEN a ELSE b

SeqToSet(s) == {s[i] : i \in 1..Len(s)}

\* ---------------------------------------------------------------- stores
VARIABLES
  brigadas,                   \* rows [id, capacitacion_completada,
                              \*       cumple_requisitos_minimos]
  brigada_brigadistas,        \* rows [brigada_id, usuario_id, rol_en_brigada]
  equipos_brigada,            \* sequence of rows [brigada_id, tipo_equipo]
  catalogo_equipos_ifn,       \* sequence of rows [nombre]
  validaciones_conformacion,  \* rows, see FilaValidacion
  asignaciones_conglomerados, \* sequence of rows [conglomerado_id, brigada_id]
  fallos,                     \* store calls that have failed so far
  atendidas,                  \* requests accepted so far
  reqs                        \* the requests: position, locals, response

stores == <<brigadas, brigada_brigadistas, equipos_brigada,
            catalogo_equipos_ifn, validaciones_conformacion,
            asignaciones_conglomerados>>
vars == <<brigadas, brigada_brigadistas, equipos_brigada,
          catalogo_equipos_ifn, validaciones_conformacion,
          asignaciones_conglomerados, fallos, atendidas, reqs>>

rolesValidos == <<"jefe_brigada", "botanico", "tecnico_auxiliar", "coinvestigador">>
RolesValidos == SeqToSet(rolesValidos)

\* ----------------------------------------------------- store call results
Resultado(data, error) == [data |-> data, error |-> error]
Falla == Resultado(Null, TRUE)
\* .single(): exactly one row, anything else is an error with data null
Single(rows) ==
  IF Cardinality(rows) = 1
    THEN Resultado(Dato(CHOOSE x \in rows : TRUE), FALSE)
    ELSE Falla
\* a plain select: the rows
Select(rows) == Resultado(Dato(rows), FALSE)

\* whether one more store call may fail
PuedeFallar == fallos < MaxFallos

\* ------------------------------------------- checklist (Paso 3 to Paso 7)
\* jefe && jefe.length > 0
Completado(rows) ==
  IF rows.null THEN "null" ELSE Bool(Cardinality(rows.v) > 0)
\* coinvestigadores && coinvestigadores.length >= 2
cantidad_minima == 2
CompletadoCoinvestigadores(rows) ==
  IF rows.null THEN "null" ELSE Bool(Cardinality(rows.v) >= cantidad_minima)
\* jefe ? jefe.length : 0
Cantidad(rows) == IF rows.null THEN 0 ELSE Cardinality(rows.v)
\* detalles: the rows when the requirement is met, else null
Detalles(rows, completado) == IF Truthy(completado) THEN rows ELSE Null

\* equiposCatalogo.map(...).filter(...) dereferences equiposCatalogo always
\* and equiposAsignados once per catalog entry
LanzaTypeError(cat, asg) == cat.null \/ (Len(cat.v) > 0 /\ asg.null)
Nombres(cat) == [i \in 1..Len(cat) |-> cat[i].nombre]
Asignado(asg, n) == \E i \in 1..Len(asg) : asg[i].tipo_equipo = n
\* mutant: a type counts as assigned only when it has exactly one row
NoAsignadoSinDuplicados(asg, n) ==
  Cardinality({i \in 1..Len(asg) : asg[i].tipo_equipo = n}) # 1
NoAsignado(asg, n) == ~Asignado(asg, n)
equiposFaltantes(cat, asg) ==
  IF Len(cat.v) = 0 THEN <<>>
  ELSE LET noAsignado(n) == NoAsignado(asg.v, n)
       IN  SelectSeq(Nombres(cat.v), noAsignado)

\* brigada.capacitacion_completada || false
capacitacionCompletada(brigada) == JsOr(brigada.capacitacion_completada, "false")

Validacion(brigada, jefe, botanico, tecnico, coinvestigadores, equiposAsignados, equiposCatalogo) ==
  LET faltantes == equiposFaltantes(equiposCatalogo, equiposAsignados)
  IN [ jefe_brigada |->
         [completado |-> Completado(jefe), cantidad |-> Cantidad(jefe),
          detalles |-> Detalles(jefe, Completado(jefe))],
       botanico |->
         [completado |-> Completado(botanico), cantidad |-> Cantidad(botanico),
          detalles |-> Detalles(botanico, Completado(botanico))],
       tecnico_auxiliar |->
         [completado |-> Completado(tecnico), cantidad |-> Cantidad(tecnico),
          detalles |-> Detalles(tecnico, Completado(tecnico))],
       coinvestigadores |->
         [completado |-> CompletadoCoinvestigadores(coinvestigadores),
          cantidad |-> Cantidad(coinvestigadores),
          detalles |-> Detalles(coinvestigadores,
                                CompletadoCoinvestigadores(coinvestigadores))],
       equipos_ifn |->
         [completado |-> Bool(Len(faltantes) = 0),
          equipos_faltantes |-> faltantes,
          total_catalogo |-> Len(equiposCatalogo.v),
          total_asignados |-> IF equiposAsignados.null THEN 0
                              ELSE Len(equiposAsignados.v)],
       capacitacion |-> [completado |-> capacitacionCompletada(brigada)] ]

\* mutant: the training flag joins the conjunction
cumpleMinimoConCapacitacion(v) ==
  JsAnd(JsAnd(JsAnd(JsAnd(JsAnd(v.jefe_brigada.completado, v.botanico.completado),
                          v.tecnico_auxiliar.completado),
                    v.coinvestigadores.completado),
              v.equipos_ifn.completado),
        v.capacitacion.completado)
\* Paso 6
cumpleMinimo(v) ==
  JsAnd(JsAnd(JsAnd(JsAnd(v.jefe_brigada.completado, v.botanico.completado),
                    v.tecnico_auxiliar.completado),
              v.coinvestigadores.completado),
        v.equipos_ifn.completado)
\* mutant: a null cumple_minimo counts as met
EstadoConformacionNoFalse(cumple) ==
  IF cumple # "false" THEN "conforme" ELSE "en_progreso"
EstadoConformacion(cumple) == IF Truthy(cumple) THEN "conforme" ELSE "en_progreso"

\* Paso 7: one entry per unmet requirement; paso is the number the code gives
\* the matching acciones_pendientes entry
Si(cond, e) == IF cond THEN <<e>> ELSE <<>>
\* mutant: a missing tecnico_auxiliar pushes no error
ErroresSinTecnico(v) ==
     Si(~Truthy(v.jefe_brigada.completado),
        [paso |-> 1, msg |-> "Falta asignar JEFE DE BRIGADA"])
  \o Si(~Truthy(v.botanico.completado),
        [paso |-> 2, msg |-> "Falta asignar BOTANICO"])
  \o Si(~Truthy(v.coinvestigadores.completado),
        [paso |-> 4, msg |-> "Faltan COINVESTIGADORES",
         tiene |-> v.coinvestigadores.cantidad])
  \o Si(~Truthy(v.equipos_ifn.completado),
        [paso |-> 5, msg |-> "Equipos IFN incompletos",
         faltantes |-> v.equipos_ifn.equipos_faltantes])
\* mutant: the equipment entry is pushed first
ErroresEquiposPrimero(v) ==
     Si(~Truthy(v.equipos_ifn.completado),
        [paso |-> 5, msg |-> "Equipos IFN incompletos",
         faltantes |-> v.equipos_ifn.equipos_faltantes])
  \o Si(~Truthy(v.jefe_brigada.completado),
        [paso |-> 1, msg |-> "Falta asignar JEFE DE BRIGADA"])
  \o Si(~Truthy(v.botanico.completado),
        [paso |-> 2, msg |-> "Falta asignar BOTANICO"])
  \o Si(~Truthy(v.tecnico_auxiliar.completado),
        [paso |-> 3, msg |-> "Falta asignar TECNICO AUXILIAR"])
  \o Si(~Truthy(v.coinvestigadores.completado),
        [paso |-> 4, msg |-> "Faltan COINVESTIGADORES",
         tiene |-> v.coinvestigadores.cantidad])
Errores(v) ==
     Si(~Truthy(v.jefe_brigada.completado),
        [paso |-> 1, msg |-> "Falta asignar JEFE DE BRIGADA"])
  \o Si(~Truthy(v.botanico.completado),
        [paso |-> 2, msg |-> "Falta asignar BOTANICO"])
  \o Si(~Truthy(v.tecnico_auxiliar.completado),
        [paso |-> 3, msg |-> "Falta asignar TECNICO AUXILIAR"])
  \o Si(~Truthy(v.coinvestigadores.completado),
        [paso |-> 4, msg |-> "Faltan COINVESTIGADORES",
         tiene |-> v.coinvestigadores.cantidad])
  \o Si(~Truthy(v.equipos_ifn.completado),
        [paso |-> 5, msg |-> "Equipos IFN incompletos",
         faltantes |-> v.equipos_ifn.equipos_faltantes])
\* mutant: the warning is pushed without looking at the flag
AdvertenciasSiempre(v) ==
  <<[paso |-> 6, msg |-> "ADVERTENCIA: Capacitacion no completada aun"]>>
Advertencias(v) ==
  Si(~Truthy(v.capacitacion.completado),
     [paso |-> 6, msg |-> "ADVERTENCIA: Capacitacion no completada aun"])
AccionRol(paso, rol) ==
  [paso |-> paso, endpoint |-> "POST /api/brigadas/:id/asignar-rol",
   body |-> [rol_en_brigada |-> rol]]
\* mutant: the training warning has no matching action
AccionesSinCapacitacion(v) ==
     Si(~Truthy(v.jefe_brigada.completado), AccionRol(1, "jefe_brigada"))
  \o Si(~Truthy(v.botanico.completado), AccionRol(2, "botanico"))
  \o Si(~Truthy(v.tecnico_auxiliar.completado), AccionRol(3, "tecnico_auxiliar"))
  \o Si(~Truthy(v.coinvestigadores.completado), AccionRol(4, "coinvestigador"))
  \o Si(~Truthy(v.equipos_ifn.completado),
        [paso |-> 5, endpoint |-> "POST /api/brigadas/:id/equipos",
         body |-> [equipos |-> v.equipos_ifn.equipos_faltantes]])
AccionesPendientes(v) ==
     Si(~Truthy(v.jefe_brigada.completado), AccionRol(1, "jefe_brigada"))
  \o Si(~Truthy(v.botanico.completado), AccionRol(2, "botanico"))
  \o Si(~Truthy(v.tecnico_auxiliar.completado), AccionRol(3, "tecnico_auxiliar"))
  \o Si(~Truthy(v.coinvestigadores.completado), AccionRol(4, "coinvestigador"))
  \o Si(~Truthy(v.equipos_ifn.completado),
        [paso |-> 5, endpoint |-> "POST /api/brigadas/:id/equipos",
         body |-> [equipos |-> v.equipos_ifn.equipos_faltantes]])
  \o Si(~Truthy(v.capacitacion.completado),
        [paso |-> 6, endpoint |-> "PUT /api/brigadas/:id/capacitacion",
         body |-> [capacitacion_completada |-> "true"]])

\* Paso 5 to Paso 7: the checklist object sent by res.json
ArmarChecklist(id, brigada, jefe, botanico, tecnico, coinvestigadores, equiposAsignados, equiposCatalogo) ==
  LET v == Validacion(brigada, jefe, botanico, tecnico, coinvestigadores,
                      equiposAsignados, equiposCatalogo)
  IN [ brigada_id |-> id,
       estado_conformacion |-> EstadoConformacion(cumpleMinimo(v)),
       validacion |-> v,
       cumple_minimo |-> cumpleMinimo(v),
       errores |-> Errores(v),
       advertencias |-> Advertencias(v),
       acciones_pendientes |-> AccionesPendientes(v) ]

\* Paso 8: the row upserted into validaciones_conformacion
\* (req.user?.id || null)
\* mutant: the record is not stamped
ValidadoPorNadie(user) == "null"
ValidadoPor(user) == IF user = "undefined" THEN "null" ELSE user
FilaValidacion(id, v, user) ==
  [ brigada_id |-> id,
    tiene_jefe |-> v.jefe_brigada.completado,
    tiene_botanico |-> v.botanico.completado,
    tiene_tecnico |-> v.tecnico_auxiliar.completado,
    numero_coinvestigadores |-> v.coinvestigadores.cantidad,
    equipos_completos |-> v.equipos_ifn.completado,
    capacitacion_completada |-> v.capacitacion.completado,
    validado_por |-> ValidadoPor(user) ]
\* mutant: the update leaves tiene_jefe of the existing row in place
UpsertValidacionMezcla(tabla, fila) ==
  {f \in tabla : f.brigada_id # fila.brigada_id}
    \cup {[fila EXCEPT !.tiene_jefe = f.tiene_jefe] :
            f \in {g \in tabla : g.brigada_id = fila.brigada_id}}
    \cup (IF \E g \in tabla : g.brigada_id = fila.brigada_id THEN {} ELSE {fila})
\* upsert with onConflict: 'brigada_id'
UpsertValidacion(tabla, fila) ==
  {f \in tabla : f.brigada_id # fila.brigada_id} \cup {fila}

\* ------------------------------------------------------------- requests
\* console.error line written by a catch block
LineaConsola(ruta) == [nivel |-> "error", ruta |-> ruta]

ReqIdle ==
  [ pc |-> "idle", ruta |-> "", id |-> "", body |-> Null, user |-> "",
    brigada |-> Null, jefe |-> Null, botanico |-> Null, tecnico |-> Null,
    coinvestigadores |-> Null, equiposAsignados |-> Null,
    equiposCatalogo |-> Null, checklist |-> Null,
    status |-> 0, respuesta |-> Null, consola |-> <<>> ]

EnReposo(r) == reqs[r].pc \in {"idle", "done"}
\* slot r can take a request: it holds none, and the lower slots are in use
Libre(r) ==
  /\ EnReposo(r)
  /\ atendidas < MaxPeticiones
  /\ \A q \in Reqs : q < r => reqs[q].pc # "idle"
Acepta == atendidas' = atendidas + 1

\* res.status(status).json(body); the handler returns
Responder(req, status, body) ==
  [req EXCEPT !.pc = "done", !.status = status, !.respuesta = body]
\* mutant: the catch block logs and sends nothing
CatchSinRespuesta(req) ==
  [req EXCEPT !.pc = "done", !.consola = Append(@, LineaConsola(req.ruta))]
\* catch (err) { console.error(...); res.status(500).json({error}) }
Catch(req) ==
  [req EXCEPT !.pc = "done", !.status = 500,
              !.respuesta = Dato([error |-> "Error"]),
              !.consola = Append(@, LineaConsola(req.ruta))]

\* the outcomes of one store call whose result would be `ok`
Llamada(ok, falla) == IF falla THEN Falla ELSE ok
FallaPosible == IF PuedeFallar THEN BOOLEAN ELSE {FALSE}
Cuenta(falla) ==
  /\ fallos' = fallos + (IF falla THEN 1 ELSE 0)
  /\ UNCHANGED atendidas

\* -------------------------- GET /brigadas/:id/checklist-conformacion
RutaChecklist == "GET /brigadas/:id/checklist-conformacion"

\* req.user.id is payload.sub of the token: "undefined" when the token has none
\* (verificarTokenExterno requires the email only)
IniciarChecklistDe(r, ids) ==
  /\ Libre(r)
  /\ \E id \in BrigadaIds, user \in ids :
       reqs' = [reqs EXCEPT ![r] =
                  [ReqIdle EXCEPT !.pc = "paso1", !.ruta = RutaChecklist,
                                  !.id = id, !.user = user]]
  /\ Acepta
  /\ UNCHANGED <<stores, fallos>>
IniciarChecklist(r) == IniciarChecklistDe(r, Identidades)
IniciarChecklistSinSub(r) == IniciarChecklistDe(r, {"undefined"})

\* if (errBrigada || !brigada) return res.status(404)
BrigadaNoEncontrada(res) == res.error \/ res.data.null
\* mutant: the missing row does not end the request
NoEncontradaSigue(req) ==
  [req EXCEPT !.pc = "paso2_jefe",
              !.brigada = Dato([id |-> req.id, capacitacion_completada |-> "null",
                                cumple_requisitos_minimos |-> "null"])]
NoEncontrada(req) == Responder(req, 404, Dato([error |-> "Brigada no encontrada"]))

\* Paso 1: Obtener brigada
Paso1(r) ==
  /\ reqs[r].pc = "paso1"
  /\ \E falla \in FallaPosible :
       LET res == Llamada(Single({b \in brigadas : b.id = reqs[r].id}), falla)
       IN /\ reqs' = [reqs EXCEPT ![r] =
                        IF BrigadaNoEncontrada(res)
                          THEN NoEncontrada(@)
                          ELSE [@ EXCEPT !.brigada = res.data, !.pc = "paso2_jefe"]]
          /\ Cuenta(falla)
  /\ UNCHANGED stores

\* mutant: a brigade that has a validation record is not read again
FilasRolSegunRegistro(id, rol) ==
  IF \E f \in validaciones_conformacion : f.brigada_id = id THEN {}
  ELSE {f \in brigada_brigadistas : f.brigada_id = id /\ f.rol_en_brigada = rol}
\* .from('brigada_brigadistas').select('*').eq('brigada_id', id).eq('rol_en_brigada', rol)
FilasRol(id, rol) ==
  {f \in brigada_brigadistas : f.brigada_id = id /\ f.rol_en_brigada = rol}

\* Paso 2: const { data: jefe } = await ...  (the error is not read)
Paso2Jefe(r) ==
  /\ reqs[r].pc = "paso2_jefe"
  /\ \E falla \in FallaPosible :
       LET res == Llamada(Select(FilasRol(reqs[r].id, "jefe_brigada")), falla)
       IN /\ reqs' = [reqs EXCEPT ![r].jefe = res.data, ![r].pc = "paso2_botanico"]
          /\ Cuenta(falla)
  /\ UNCHANGED stores

Paso2Botanico(r) ==
  /\ reqs[r].pc = "paso2_botanico"
  /\ \E falla \in FallaPosible :
       LET res == Llamada(Select(FilasRol(reqs[r].id, "botanico")), falla)
       IN /\ reqs' = [reqs EXCEPT ![r].botanico = res.data, ![r].pc = "paso2_tecnico"]
          /\ Cuenta(falla)
  /\ UNCHANGED stores

Paso2Tecnico(r) ==
  /\ reqs[r].pc = "paso2_tecnico"
  /\ \E falla \in FallaPosible :
       LET res == Llamada(Select(FilasRol(reqs[r].id, "tecnico_auxiliar")), falla)
       IN /\ reqs' = [reqs EXCEPT ![r].tecnico = res.data,
                                  ![r].pc = "paso2_coinvestigadores"]
          /\ Cuenta(falla)
  /\ UNCHANGED stores

Paso2Coinvestigadores(r) ==
  /\ reqs[r].pc = "paso2_coinvestigadores"
  /\ \E falla \in FallaPosible :
       LET res == Llamada(Select(FilasRol(reqs[r].id, "coinvestigador")), falla)
       IN /\ reqs' = [reqs EXCEPT ![r].coinvestigadores = res.data,
                                  ![r].pc = "paso3_asignados"]
          /\ Cuenta(falla)
  /\ UNCHANGED stores

\* .from('equipos_brigada').select('tipo_equipo').eq('brigada_id', id)
EquiposDe(id) ==
  LET deBrigada(f) == f.brigada_id = id
      filas == SelectSeq(equipos_brigada, deBrigada)
  IN [i \in 1..Len(filas) |-> [tipo_equipo |-> filas[i].tipo_equipo]]

\* Paso 3: equipos asignados
Paso3Asignados(r) ==
  /\ reqs[r].pc = "paso3_asignados"
  /\ \E falla \in FallaPosible :
       LET res == Llamada(Select(EquiposDe(reqs[r].id)), falla)
       IN /\ reqs' = [reqs EXCEPT ![r].equiposAsignados = res.data,
                                  ![r].pc = "paso3_catalogo"]
          /\ Cuenta(falla)
  /\ UNCHANGED stores

\* mutant: the checklist is built without waiting for the catalog read, from
\* an empty list
ConChecklistSinEsperar(req, cat) ==
  IF LanzaTypeError(cat, req.equiposAsignados)
    THEN Catch([req EXCEPT !.equiposCatalogo = cat])
    ELSE [req EXCEPT !.equiposCatalogo = cat, !.pc = "paso8",
            !.checklist = Dato(ArmarChecklist(req.id, req.brigada.v, req.jefe,
                                 req.botanico, req.tecnico, req.coinvestigadores,
                                 req.equiposAsignados, Dato(<<>>)))]
\* Paso 3 (catalog read) and Paso 4 to Paso 7, which run without an await
ConChecklist(req, cat) ==
  IF LanzaTypeError(cat, req.equiposAsignados)
    THEN Catch([req EXCEPT !.equiposCatalogo = cat])
    ELSE [req EXCEPT !.equiposCatalogo = cat, !.pc = "paso8",
            !.checklist = Dato(ArmarChecklist(req.id, req.brigada.v, req.jefe,
                                 req.botanico, req.tecnico, req.coinvestigadores,
                                 req.equiposAsignados, cat))]

Paso3Catalogo(r) ==
  /\ reqs[r].pc = "paso3_catalogo"
  /\ \E falla \in FallaPosible :
       LET res == Llamada(Select(catalogo_equipos_ifn), falla)
       IN /\ reqs' = [reqs EXCEPT ![r] = ConChecklist(@, res.data)]
          /\ Cuenta(falla)
  /\ UNCHANGED stores

\* mutant: if (error) throw error
TrasUpsertLanza(req, error) ==
  IF error THEN Catch(req) ELSE Responder(req, 200, req.checklist)
\* what the handler does with the result of the Paso 8 upsert: the result is
\* awaited and dropped, then res.json(checklist)
TrasUpsert(req, error) == Responder(req, 200, req.checklist)

\* Paso 8: upsert into validaciones_conformacion, then res.json(checklist)
Paso8(r) ==
  /\ reqs[r].pc = "paso8"
  /\ \E falla \in FallaPosible :
       /\ validaciones_conformacion' =
            IF falla THEN validaciones_conformacion
            ELSE UpsertValidacion(validaciones_conformacion,
                   FilaValidacion(reqs[r].id, reqs[r].checklist.v.validacion,
                                  reqs[r].user))
       /\ reqs' = [reqs EXCEPT ![r] = TrasUpsert(@, falla)]
       /\ Cuenta(falla)
  /\ UNCHANGED <<brigadas, brigada_brigadistas, equipos_brigada,
                 catalogo_equipos_ifn, asignaciones_conglomerados>>

\* --------------------------------------- POST /brigadas/:id/asignar-rol
RutaAsignarRol == "POST /brigadas/:id/asignar-rol"
RolesEntrada == RolesValidos \cup {"invalido"}
usuarios == {[id |-> u] : u \in Usuarios}
\* the users named in requests: the first, the last, and one that does not exist
UsuariosEntrada == {1, MaxUsuarios, UsuarioAusente}

\* mutant: the role is not validated
RolValidoSiempre(rol) == TRUE
\* rolesValidos.includes(rol_en_brigada)
RolValido(rol) == rol \in RolesValidos

\* the request arrives; an invalid role is answered before the first await
IniciarAsignarRol(r) ==
  /\ Libre(r)
  /\ \E id \in BrigadaIds, u \in UsuariosEntrada, rol \in RolesEntrada :
       LET req == [ReqIdle EXCEPT !.ruta = RutaAsignarRol, !.id = id,
                     !.body = Dato([usuario_id |-> u, rol_en_brigada |-> rol])]
       IN reqs' = [reqs EXCEPT ![r] =
                     IF RolValido(rol)
                       THEN [req EXCEPT !.pc = "ar_brigada"]
                       ELSE Responder(req, 400, Dato([error |-> "Rol invalido"]))]
  /\ Acepta
  /\ UNCHANGED <<stores, fallos>>

\* Validar que la brigada exista
ArBrigada(r) ==
  /\ reqs[r].pc = "ar_brigada"
  /\ \E falla \in FallaPosible :
       LET res == Llamada(Single({b \in brigadas : b.id = reqs[r].id}), falla)
       IN /\ reqs' = [reqs EXCEPT ![r] =
                        IF res.error \/ res.data.null
                          THEN Responder(@, 404, Dato([error |-> "Brigada no encontrada"]))
                          ELSE [@ EXCEPT !.pc = "ar_usuario"]]
          /\ Cuenta(falla)
  /\ UNCHANGED stores

\* mutant: the user check lets every id through
UsuarioNoEncontradoNunca(res) == FALSE
\* if (errUsuario || !usuario) return res.status(404)
UsuarioNoEncontrado(res) == res.error \/ res.data.null

\* Validar que el usuario exista
ArUsuario(r) ==
  /\ reqs[r].pc = "ar_usuario"
  /\ \E falla \in FallaPosible :
       LET res == Llamada(Single({u \in usuarios : u.id = reqs[r].body.v.usuario_id}),
                          falla)
       IN /\ reqs' = [reqs EXCEPT ![r] =
                        IF UsuarioNoEncontrado(res)
                          THEN Responder(@, 404, Dato([error |-> "Usuario no encontrado"]))
                          ELSE [@ EXCEPT !.pc = "ar_upsert"]]
          /\ Cuenta(falla)
  /\ UNCHANGED stores

FilaRol(id, body) ==
  [brigada_id |-> id, usuario_id |-> body.usuario_id,
   rol_en_brigada |-> body.rol_en_brigada]
\* mutant: insert instead of upsert
InsertRol(tabla, fila) == tabla \cup {fila}
\* upsert with onConflict: 'brigada_id,usuario_id'
UpsertRol(tabla, fila) ==
  {f \in tabla : ~(f.brigada_id = fila.brigada_id /\ f.usuario_id = fila.usuario_id)}
    \cup {fila}

\* Insertar/actualizar en brigada_brigadistas; if (errAsign) throw errAsign
ArUpsert(r) ==
  /\ reqs[r].pc = "ar_upsert"
  /\ \E falla \in FallaPosible :
       LET fila == FilaRol(reqs[r].id, reqs[r].body.v)
       IN /\ brigada_brigadistas' =
               IF falla THEN brigada_brigadistas
               ELSE UpsertRol(brigada_brigadistas, fila)
          /\ reqs' = [reqs EXCEPT ![r] =
                        IF falla THEN Catch(@)
                        ELSE Responder(@, 200, Dato([asignacion |-> fila]))]
          /\ Cuenta(falla)
  /\ UNCHANGED <<brigadas, equipos_brigada, catalogo_equipos_ifn,
                 validaciones_conformacion, asignaciones_conglomerados>>

\* ------------------------------------------ POST /brigadas/:id/equipos
RutaEquipos == "POST /brigadas/:id/equipos"
Equipo(t) == [tipo_equipo |-> t, cantidad |-> 1]
EquiposEntrada ==
  { <<Equipo("gps")>>, <<Equipo("extra")>>, <<Equipo("gps"), Equipo("cinta")>> }

RECURSIVE FilasEnVuelo(_)
FilasEnVuelo(n) ==
  IF n = 0 THEN 0
  ELSE FilasEnVuelo(n - 1)
       + (IF reqs[n].pc = "eq_insert" THEN Len(reqs[n].body.v.equipos) ELSE 0)

\* equipos.map(e => ({ ...e, brigada_id: id }))
Inserts(id, equipos) ==
  [i \in 1..Len(equipos) |->
     [brigada_id |-> id, tipo_equipo |-> equipos[i].tipo_equipo,
      cantidad |-> equipos[i].cantidad]]

IniciarEquipos(r) ==
  /\ Libre(r)
  /\ \E id \in BrigadaIds, equipos \in EquiposEntrada :
       /\ Len(equipos_brigada) + FilasEnVuelo(MaxReqs) + Len(equipos) <= MaxFilasEquipos
       /\ reqs' = [reqs EXCEPT ![r] =
                     [ReqIdle EXCEPT !.pc = "eq_insert", !.ruta = RutaEquipos,
                                     !.id = id, !.body = Dato([equipos |-> equipos])]]
  /\ Acepta
  /\ UNCHANGED <<stores, fallos>>

\* insert(inserts); if (error) throw error
EqInsert(r) ==
  /\ reqs[r].pc = "eq_insert"
  /\ \E falla \in FallaPosible :
       /\ equipos_brigada' =
            IF falla THEN equipos_brigada
            ELSE equipos_brigada \o Inserts(reqs[r].id, reqs[r].body.v.equipos)
       /\ reqs' = [reqs EXCEPT ![r] =
                     IF falla THEN Catch(@)
                     ELSE Responder(@, 200, Dato([message |-> "Equipos asignados"]))]
       /\ Cuenta(falla)
  /\ UNCHANGED <<brigadas, brigada_brigadistas, catalogo_equipos_ifn,
                 validaciones_conformacion, asignaciones_conglomerados>>

\* ------------------------------------- GET /brigadas/:id/equipos/validar
RutaValidar == "GET /brigadas/:id/equipos/validar"

\* mutant: the missing names come out last first
faltantesAlReves(cat, asg) ==
  LET some(n) == \E i \in DOMAIN asg.v : asg.v[i].tipo_equipo = n
      falta(n) == ~some(n)
      f == SelectSeq([i \in DOMAIN cat.v |-> cat.v[i].nombre], falta)
  IN [i \in 1..Len(f) |-> f[Len(f) + 1 - i]]
\* cat.map(c => c.nombre).filter(n => !asg.some(a => a.tipo_equipo === n))
\* (filter does not call back on an empty array)
faltantesDeValidar(cat, asg) ==
  LET some(n) == \E i \in DOMAIN asg.v : asg.v[i].tipo_equipo = n
      falta(n) == ~some(n)
  IN IF cat.v = <<>> THEN <<>>
     ELSE SelectSeq([i \in DOMAIN cat.v |-> cat.v[i].nombre], falta)
\* cat.map of a null cat, asg.some of a null asg
ValidarLanza(cat, asg) == cat.null \/ (cat.v # <<>> /\ asg.null)

\* the request arrives; the handler's cat and asg are kept in the fields
\* equiposCatalogo and equiposAsignados of the request
IniciarValidar(r) ==
  /\ Libre(r)
  /\ \E id \in BrigadaIds :
       reqs' = [reqs EXCEPT ![r] =
                  [ReqIdle EXCEPT !.pc = "ev_catalogo", !.ruta = RutaValidar,
                                  !.id = id]]
  /\ Acepta
  /\ UNCHANGED <<stores, fallos>>

\* const { data: cat } = await ...from("catalogo_equipos_ifn").select("nombre")
EvCatalogo(r) ==
  /\ reqs[r].pc = "ev_catalogo"
  /\ \E falla \in FallaPosible :
       LET res == Llamada(Select(catalogo_equipos_ifn), falla)
       IN /\ reqs' = [reqs EXCEPT ![r].equiposCatalogo = res.data,
                                  ![r].pc = "ev_asignados"]
          /\ Cuenta(falla)
  /\ UNCHANGED stores

\* res.json({ completos: faltantes.length === 0, faltantes }), or the catch
RespuestaValidar(req, asg) ==
  IF ValidarLanza(req.equiposCatalogo, asg)
    THEN Catch([req EXCEPT !.equiposAsignados = asg])
    ELSE LET f == faltantesDeValidar(req.equiposCatalogo, asg)
         IN Responder([req EXCEPT !.equiposAsignados = asg], 200,
                      Dato([completos |-> Bool(Len(f) = 0), faltantes |-> f]))

\* const { data: asg } = await ...from("equipos_brigada")...eq("brigada_id", id)
\* and the rest of the handler
EvAsignados(r) ==
  /\ reqs[r].pc = "ev_asignados"
  /\ \E falla \in FallaPosible :
       LET res == Llamada(Select(EquiposDe(reqs[r].id)), falla)
       IN /\ reqs' = [reqs EXCEPT ![r] = RespuestaValidar(@, res.data)]
          /\ Cuenta(falla)
  /\ UNCHANGED stores

\* ------------------------------------- PUT /brigadas/:id/capacitacion
RutaCapacitacion == "PUT /brigadas/:id/capacitacion"
CapacitacionEntrada == {"undefined", "true", "false"}

\* mutant: the field is not required
CampoAusenteNunca(c) == FALSE
\* capacitacion_completada === undefined
CampoAusente(c) == c = "undefined"

IniciarCapacitacion(r) ==
  /\ Libre(r)
  /\ \E id \in BrigadaIds, c \in CapacitacionEntrada :
       LET req == [ReqIdle EXCEPT !.ruta = RutaCapacitacion, !.id = id,
                     !.body = Dato([capacitacion_completada |-> c])]
       IN reqs' = [reqs EXCEPT ![r] =
                     IF CampoAusente(c)
                       THEN Responder(req, 400, Dato([error |-> "Campo obligatorio"]))
                       ELSE [req EXCEPT !.pc = "cap_update"]]
  /\ Acepta
  /\ UNCHANGED <<stores, fallos>>

\* update({capacitacion_completada}).eq('id', id)
ActualizarCapacitacion(tabla, id, c) ==
  {IF b.id = id THEN [b EXCEPT !.capacitacion_completada = c] ELSE b : b \in tabla}

\* update(...).select().single(); if (error) throw error
CapUpdate(r) ==
  /\ reqs[r].pc = "cap_update"
  /\ \E falla \in FallaPosible :
       LET nueva == ActualizarCapacitacion(brigadas, reqs[r].id,
                                           reqs[r].body.v.capacitacion_completada)
           res == Llamada(Single({b \in nueva : b.id = reqs[r].id}), falla)
       IN /\ brigadas' = IF falla THEN brigadas ELSE nueva
          /\ reqs' = [reqs EXCEPT ![r] =
                        IF res.error THEN Catch(@)
                        ELSE Responder(@, 200, Dato([brigada |-> res.data.v]))]
          /\ Cuenta(falla)
  /\ UNCHANGED <<brigada_brigadistas, equipos_brigada, catalogo_equipos_ifn,
                 validaciones_conformacion, asignaciones_conglomerados>>

\* ----------------------------------------- POST /brigadas/conformar
RutaConformar == "POST /brigadas/conformar"
\* bodies: complete, one coinvestigador only, no jefe_id, no coinvestigadores_ids
CuerpoConformar(jefe, coinvestigadores) ==
  [jefe_id |-> jefe, botanico_id |-> 2, tecnico_id |-> 3,
   coinvestigadores_ids |-> coinvestigadores]
ConformarEntrada ==
  { CuerpoConformar(Dato(1), Dato(<<4, 5>>)),
    CuerpoConformar(Dato(1), Dato(<<4>>)),
    CuerpoConformar(Null, Dato(<<4, 5>>)),
    CuerpoConformar(Dato(1), Null) }
\* !jefe_id || !botanico_id || !tecnico_id || coinvestigadores_ids.length < 2
RequisitosNoCumplidos(body) ==
  body.jefe_id.null \/ Len(body.coinvestigadores_ids.v) < 2
\* the id the store gives the next row of brigadas
IdsLibres == {id \in BrigadaIds : \A b \in brigadas : b.id # id}
NuevoId == CHOOSE id \in IdsLibres : TRUE

\* the request arrives; the body is checked before the first await, and
\* coinvestigadores_ids.length throws when the field is absent
IniciarConformar(r) ==
  /\ Libre(r)
  /\ IdsLibres # {}
  /\ \E body \in ConformarEntrada, user \in Identidades :
       LET req == [ReqIdle EXCEPT !.ruta = RutaConformar, !.user = user,
                                  !.body = Dato(body)]
       IN reqs' = [reqs EXCEPT ![r] =
                     IF ~body.jefe_id.null /\ body.coinvestigadores_ids.null
                       THEN Catch(req)
                     ELSE IF RequisitosNoCumplidos(body)
                       THEN Responder(req, 400, Dato([error |-> "Requisitos minimos"]))
                     ELSE [req EXCEPT !.pc = "cf_brigada"]]
  /\ Acepta
  /\ UNCHANGED <<stores, fallos>>

\* insert({nombre, jefe_brigada_id, ...}).select().single(); the columns the
\* insert does not name are null
FilaBrigada(id) ==
  [id |-> id, capacitacion_completada |-> "null",
   cumple_requisitos_minimos |-> "null"]

\* if (err1) throw err1
CfBrigada(r) ==
  /\ reqs[r].pc = "cf_brigada"
  /\ \E falla \in FallaPosible :
       /\ brigadas' = IF falla THEN brigadas
                      ELSE brigadas \cup {FilaBrigada(NuevoId)}
       /\ reqs' = [reqs EXCEPT ![r] =
                     IF falla THEN Catch(@)
                     ELSE [@ EXCEPT !.brigada = Dato(FilaBrigada(NuevoId)),
                                    !.pc = "cf_validacion"]]
       /\ Cuenta(falla)
  /\ UNCHANGED <<brigada_brigadistas, equipos_brigada, catalogo_equipos_ifn,
                 validaciones_conformacion, asignaciones_conglomerados>>

\* the row conformar inserts into validaciones_conformacion
FilaConformar(brigada, body, user) ==
  [ brigada_id |-> brigada.id,
    tiene_jefe |-> "true",
    tiene_botanico |-> "true",
    tiene_tecnico |-> "true",
    numero_coinvestigadores |-> Len(body.coinvestigadores_ids.v),
    equipos_completos |-> "null",
    capacitacion_completada |-> "null",
    validado_por |-> user ]
\* insert: refused when the brigade already has a row (brigada_id is unique)
InsertValidacion(tabla, fila) ==
  IF \E f \in tabla : f.brigada_id = fila.brigada_id THEN tabla
  ELSE tabla \cup {fila}

\* await insert(...), the result is dropped; res.json({ brigada })
CfValidacion(r) ==
  /\ reqs[r].pc = "cf_validacion"
  /\ \E falla \in FallaPosible :
       /\ validaciones_conformacion' =
            IF falla THEN validaciones_conformacion
            ELSE InsertValidacion(validaciones_conformacion,
                   FilaConformar(reqs[r].brigada.v, reqs[r].body.v, reqs[r].user))
       /\ reqs' = [reqs EXCEPT ![r] =
                     Responder(@, 200, Dato([brigada |-> reqs[r].brigada.v]))]
       /\ Cuenta(falla)
  /\ UNCHANGED <<brigadas, brigada_brigadistas, equipos_brigada,
                 catalogo_equipos_ifn, asignaciones_conglomerados>>

\* ----------------------------- POST /conglomerados/:id/asignar-brigada
RutaAsignarBrigada == "POST /conglomerados/:id/asignar-brigada"
ConglomeradoIds == {"c1"}

IniciarAsignarBrigada(r) ==
  /\ Libre(r)
  /\ \E id \in ConglomeradoIds, brigada_id \in BrigadaIds :
       reqs' = [reqs EXCEPT ![r] =
                  [ReqIdle EXCEPT !.pc = "ab_leer", !.ruta = RutaAsignarBrigada,
                                  !.id = id,
                                  !.body = Dato([brigada_id |-> brigada_id])]]
  /\ Acepta
  /\ UNCHANGED <<stores, fallos>>

\* val.cumple_requisitos_minimos
CumpleRequisitos(val) == Truthy(val.cumple_requisitos_minimos)

\* const { data: val } = await ...single(); val.cumple_requisitos_minimos
\* throws when val is null
AbLeer(r) ==
  /\ reqs[r].pc = "ab_leer"
  /\ \E falla \in FallaPosible :
       LET res == Llamada(Single({b \in brigadas : b.id = reqs[r].body.v.brigada_id}),
                          falla)
       IN /\ reqs' = [reqs EXCEPT ![r] =
                        IF res.data.null THEN Catch(@)
                        ELSE IF ~CumpleRequisitos(res.data.v)
                          THEN Responder(@, 400,
                                 Dato([error |-> "Brigada no cumple requisitos"]))
                        ELSE [@ EXCEPT !.pc = "ab_insertar"]]
          /\ Cuenta(falla)
  /\ UNCHANGED stores

\* insert({ conglomerado_id, brigada_id, fecha_asignacion }); if (error) throw
AbInsertar(r) ==
  /\ reqs[r].pc = "ab_insertar"
  /\ \E falla \in FallaPosible :
       /\ asignaciones_conglomerados' =
            IF falla THEN asignaciones_conglomerados
            ELSE Append(asignaciones_conglomerados,
                        [conglomerado_id |-> reqs[r].id,
                         brigada_id |-> reqs[r].body.v.brigada_id])
       /\ reqs' = [reqs EXCEPT ![r] =
                     IF falla THEN Catch(@)
                     ELSE Responder(@, 200, Dato([message |-> "Brigada asignada"]))]
       /\ Cuenta(falla)
  /\ UNCHANGED <<brigadas, brigada_brigadistas, equipos_brigada,
                 catalogo_equipos_ifn, validaciones_conformacion>>

\* ----------------------------------------------------------- behaviours
\* the conformance rule read off the tables themselves
NumeroConRol(id, rol) ==
  Cardinality({f \in brigada_brigadistas :
                 f.brigada_id = id /\ f.rol_en_brigada = rol})
TiposAsignados(id) ==
  {equipos_brigada[i].tipo_equipo :
     i \in {j \in 1..Len(equipos_brigada) : equipos_brigada[j].brigada_id = id}}
NombresCatalogo ==
  {catalogo_equipos_ifn[i].nombre : i \in 1..Len(catalogo_equipos_ifn)}
Conforme(id) ==
  /\ NumeroConRol(id, "jefe_brigada") >= 1
  /\ NumeroConRol(id, "botanico") >= 1
  /\ NumeroConRol(id, "tecnico_auxiliar") >= 1
  /\ NumeroConRol(id, "coinvestigador") >= 2
  /\ NombresCatalogo \subseteq TiposAsignados(id)

\* users 1, 2, 3 hold the three single roles, the others are coinvestigadores
RolInicial(u) ==
  IF u <= 3 THEN rolesValidos[u] ELSE "coinvestigador"
AsignacionesIniciales(k) ==
  {[brigada_id |-> "b1", usuario_id |-> u, rol_en_brigada |-> RolInicial(u)] :
     u \in 1..k}
CatalogosIniciales ==
  { <<>>, <<[nombre |-> "gps"], [nombre |-> "cinta"]>> }
EquiposIniciales(cat) ==
  { <<>>,
    [i \in 1..Len(cat) |->
       [brigada_id |-> "b1", tipo_equipo |-> cat[i].nombre, cantidad |-> 1]] }

\* brigadas.cumple_requisitos_minimos is written by no route; at the start it
\* agrees with the rule
Init ==
  /\ \E k \in {0, MaxUsuarios} :
       brigada_brigadistas = AsignacionesIniciales(k)
  /\ catalogo_equipos_ifn \in CatalogosIniciales
  /\ equipos_brigada \in EquiposIniciales(catalogo_equipos_ifn)
  /\ \E c \in {"null", "true"} :
       brigadas = {[id |-> "b1", capacitacion_completada |-> c,
                    cumple_requisitos_minimos |-> Bool(Conforme("b1"))]}
  /\ validaciones_conformacion = {}
  /\ asignaciones_conglomerados = <<>>
  /\ fallos = 0
  /\ atendidas = 0
  /\ reqs = [r \in Reqs |-> ReqIdle]

Iniciar(r) ==
  \/ IniciarChecklist(r)
  \/ IniciarAsignarRol(r)
  \/ IniciarEquipos(r)
  \/ IniciarCapacitacion(r)

Continuar(r) ==
  \/ Paso1(r)
  \/ Paso2Jefe(r)
  \/ Paso2Botanico(r)
  \/ Paso2Tecnico(r)
  \/ Paso2Coinvestigadores(r)
  \/ Paso3Asignados(r)
  \/ Paso3Catalogo(r)
  \/ Paso8(r)
  \/ ArBrigada(r)
  \/ ArUsuario(r)
  \/ ArUpsert(r)
  \/ EqInsert(r)
  \/ CapUpdate(r)

\* the callers wait for each response before the next request
EnSerie == \A q \in Reqs : EnReposo(q)
SerieChecklist == EnSerie /\ IniciarChecklist(1)
SerieAsignarRol == EnSerie /\ IniciarAsignarRol(1)
SerieEquipos == EnSerie /\ IniciarEquipos(1)
SerieCapacitacion == EnSerie /\ IniciarCapacitacion(1)
Next ==
  \/ SerieChecklist
  \/ SerieAsignarRol
  \/ SerieEquipos
  \/ SerieCapacitacion
  \/ \E r \in Reqs : Continuar(r)
Spec == Init /\ [][Next]_vars

\* the checklist evaluator and conformar, callers in series
SerieConformar == EnSerie /\ IniciarConformar(1)
Evaluar(r) ==
  \/ Paso1(r)
  \/ Paso2Jefe(r)
  \/ Paso2Botanico(r)
  \/ Paso2Tecnico(r)
  \/ Paso2Coinvestigadores(r)
  \/ Paso3Asignados(r)
  \/ Paso3Catalogo(r)
  \/ Paso8(r)
Conformar(r) == CfBrigada(r) \/ CfValidacion(r)
\* an evaluation whose token has no sub
SerieChecklistSinSub == EnSerie /\ IniciarChecklistSinSub(1)
NextConformar ==
  \/ SerieChecklist
  \/ SerieChecklistSinSub
  \/ SerieConformar
  \/ \E r \in Reqs : Evaluar(r) \/ Conformar(r)
SpecConformar == Init /\ [][NextConformar]_vars
\* every store call of an evaluation returns
SpecConformarJusta ==
  Init /\ [][NextConformar]_vars /\ WF_vars(\E r \in Reqs : Evaluar(r))

\* role assignment and dispatch to a conglomerado, callers in series
SerieAsignarBrigada == EnSerie /\ IniciarAsignarBrigada(1)
AsignarRol(r) == ArBrigada(r) \/ ArUsuario(r) \/ ArUpsert(r)
AsignarBrigada(r) == AbLeer(r) \/ AbInsertar(r)
NextConglomerado ==
  \/ SerieAsignarRol
  \/ SerieAsignarBrigada
  \/ \E r \in Reqs : AsignarRol(r) \/ AsignarBrigada(r)
SpecConglomerado == Init /\ [][NextConglomerado]_vars

\* the record an evaluation wrote when brigade b1 had no members, no equipment
\* and no training
RegistroAnterior ==
  FilaValidacion("b1",
    Validacion([id |-> "b1", capacitacion_completada |-> "null",
                cumple_requisitos_minimos |-> "false"],
               Dato({}), Dato({}), Dato({}), Dato({}), Dato(<<>>),
               Dato(catalogo_equipos_ifn)),
    "v1")
CatalogoCompleto == <<[nombre |-> "gps"], [nombre |-> "cinta"]>>
\* the brigade has its equipment and no training yet, with or without its
\* members, and may have been evaluated before
InitEvaluaciones ==
  /\ \E k \in {0, MaxUsuarios} :
       brigada_brigadistas = AsignacionesIniciales(k)
  /\ catalogo_equipos_ifn = CatalogoCompleto
  /\ equipos_brigada \in EquiposIniciales(catalogo_equipos_ifn) \ {<<>>}
  /\ brigadas = {[id |-> "b1", capacitacion_completada |-> "null",
                  cumple_requisitos_minimos |-> Bool(Conforme("b1"))]}
  /\ validaciones_conformacion \in {{}, {RegistroAnterior}}
  /\ asignaciones_conglomerados = <<>>
  /\ fallos = 0
  /\ atendidas = 0
  /\ reqs = [r \in Reqs |-> ReqIdle]

\* evaluations and training updates that overlap
Capacitacion(r) == CapUpdate(r)
NextEvaluaciones ==
  \E r \in Reqs :
    \/ IniciarChecklist(r)
    \/ IniciarCapacitacion(r)
    \/ Evaluar(r)
    \/ Capacitacion(r)
SpecEvaluaciones == InitEvaluaciones /\ [][NextEvaluaciones]_vars

\* ------------------------------------------- the two equipment checks
\* the equipment a brigade can have against the catalog: none, a part, all of
\* it, a type twice, a type the catalog does not have
EquiposPosibles ==
  LET fila(t) == [brigada_id |-> "b1", tipo_equipo |-> t, cantidad |-> 1]
  IN { <<>>, <<fila("gps")>>, <<fila("cinta"), fila("gps")>>,
       <<fila("cinta"), fila("cinta")>>, <<fila("extra")>> }
InitEquipos ==
  /\ brigada_brigadistas = AsignacionesIniciales(MaxUsuarios)
  /\ catalogo_equipos_ifn \in CatalogosIniciales
  /\ equipos_brigada \in EquiposPosibles
  /\ brigadas = {[id |-> "b1", capacitacion_completada |-> "true",
                  cumple_requisitos_minimos |-> Bool(Conforme("b1"))]}
  /\ validaciones_conformacion = {}
  /\ asignaciones_conglomerados = <<>>
  /\ fallos = 0
  /\ atendidas = 0
  /\ reqs = [r \in Reqs |-> ReqIdle]

\* evaluations and equipos/validar requests that overlap
Validar(r) == EvCatalogo(r) \/ EvAsignados(r)
NextEquipos ==
  \E r \in Reqs :
    \/ IniciarChecklist(r)
    \/ IniciarValidar(r)
    \/ Evaluar(r)
    \/ Validar(r)
SpecEquipos == InitEquipos /\ [][NextEquipos]_vars

\* ------------------------------------ a reassignment during evaluations
\* brigade b1 has its equipment, its training, a jefe_brigada (user 1), a
\* tecnico_auxiliar and two coinvestigadores, and no botanico
InitCarrera ==
  /\ brigada_brigadistas =
       {f \in AsignacionesIniciales(MaxUsuarios) : f.rol_en_brigada # "botanico"}
  /\ catalogo_equipos_ifn = CatalogoCompleto
  /\ equipos_brigada \in EquiposIniciales(catalogo_equipos_ifn) \ {<<>>}
  /\ brigadas = {[id |-> "b1", capacitacion_completada |-> "true",
                  cumple_requisitos_minimos |-> "false"]}
  /\ validaciones_conformacion = {}
  /\ asignaciones_conglomerados = <<>>
  /\ fallos = 0
  /\ atendidas = 0
  /\ reqs = [r \in Reqs |-> ReqIdle]

\* POST /brigadas/b1/asignar-rol {usuario_id: 1, rol_en_brigada: "botanico"},
\* sent while user 1 is the jefe_brigada and no other assignment is running;
\* it comes on top of the evaluations
ReasignarJefe(r) ==
  /\ EnReposo(r)
  /\ \A q \in Reqs : q < r => reqs[q].pc # "idle"
  /\ \A q \in Reqs : reqs[q].ruta = RutaAsignarRol => reqs[q].pc = "done"
  /\ [brigada_id |-> "b1", usuario_id |-> 1, rol_en_brigada |-> "jefe_brigada"]
       \in brigada_brigadistas
  /\ reqs' = [reqs EXCEPT ![r] =
                [ReqIdle EXCEPT !.pc = "ar_brigada", !.ruta = RutaAsignarRol,
                                !.id = "b1",
                                !.body = Dato([usuario_id |-> 1,
                                               rol_en_brigada |-> "botanico"])]]
  /\ UNCHANGED <<stores, fallos, atendidas>>

NextCarrera ==
  \E r \in Reqs :
    \/ IniciarChecklist(r)
    \/ ReasignarJefe(r)
    \/ Evaluar(r)
    \/ AsignarRol(r)
SpecCarrera == InitCarrera /\ [][NextCarrera]_vars

\* ------------------------------------------------------------ a caller
\* One caller of brigade b1 that evaluates, executes the first entry of
\* acciones_pendientes of the checklist it got, and evaluates again, until a
\* checklist comes back without pending actions.
BrigadaCliente == "b1"
UltimoChecklist ==
  reqs[1].ruta = RutaChecklist /\ reqs[1].pc = "done" /\ reqs[1].status = 200
HayAccion == UltimoChecklist /\ reqs[1].respuesta.v.acciones_pendientes # <<>>
PrimeraAccion == Head(reqs[1].respuesta.v.acciones_pendientes)
Terminado == UltimoChecklist /\ reqs[1].respuesta.v.acciones_pendientes = <<>>

ClienteEvalua ==
  /\ EnSerie /\ ~HayAccion /\ ~Terminado
  /\ \E user \in Identidades :
       reqs' = [reqs EXCEPT ![1] =
                  [ReqIdle EXCEPT !.pc = "paso1", !.ruta = RutaChecklist,
                                  !.id = BrigadaCliente, !.user = user]]
  /\ UNCHANGED <<stores, fallos, atendidas>>

\* the users the caller picks from: the first user, and the first user that
\* has no row in the brigade
SinRol(id) == {u \in Usuarios : \A f \in brigada_brigadistas :
                                 ~(f.brigada_id = id /\ f.usuario_id = u)}
Primero(S) == {u \in S : \A w \in S : u <= w}
UsuariosCliente == {1} \cup Primero(SinRol(BrigadaCliente))

\* pasos 1 to 4: the body of the action names the role, the caller the user
ClienteAsignaRol ==
  /\ EnSerie /\ HayAccion /\ PrimeraAccion.paso \in 1..4
  /\ \E u \in UsuariosCliente :
       reqs' = [reqs EXCEPT ![1] =
                  [ReqIdle EXCEPT !.pc = "ar_brigada", !.ruta = RutaAsignarRol,
                     !.id = BrigadaCliente,
                     !.body = Dato([usuario_id |-> u,
                                    rol_en_brigada |-> PrimeraAccion.body.rol_en_brigada])]]
  /\ UNCHANGED <<stores, fallos, atendidas>>

\* paso 5: body { equipos: equiposFaltantes.map(e => ({tipo_equipo: e, cantidad: 1})) }
ClienteAsignaEquipos ==
  /\ EnSerie /\ HayAccion /\ PrimeraAccion.paso = 5
  /\ LET faltantes == PrimeraAccion.body.equipos
     IN reqs' = [reqs EXCEPT ![1] =
                   [ReqIdle EXCEPT !.pc = "eq_insert", !.ruta = RutaEquipos,
                      !.id = BrigadaCliente,
                      !.body = Dato([equipos |->
                                  [i \in 1..Len(faltantes) |-> Equipo(faltantes[i])]])]]
  /\ UNCHANGED <<stores, fallos, atendidas>>

\* paso 6: body { capacitacion_completada: true }
ClienteCapacita ==
  /\ EnSerie /\ HayAccion /\ PrimeraAccion.paso = 6
  /\ reqs' = [reqs EXCEPT ![1] =
                [ReqIdle EXCEPT !.pc = "cap_update", !.ruta = RutaCapacitacion,
                   !.id = BrigadaCliente,
                   !.body = Dato([capacitacion_completada |->
                                    PrimeraAccion.body.capacitacion_completada])]]
  /\ UNCHANGED <<stores, fallos, atendidas>>

Equipos(r) == EqInsert(r)
NextCliente ==
  \/ ClienteEvalua
  \/ ClienteAsignaRol
  \/ ClienteAsignaEquipos
  \/ ClienteCapacita
  \/ \E r \in Reqs : Evaluar(r) \/ AsignarRol(r) \/ Equipos(r) \/ Capacitacion(r)
\* the caller keeps going and the server answers every request
SpecCliente == Init /\ [][NextCliente]_vars /\ WF_vars(NextCliente)

\* requests overlap: their steps interleave at every await
NextConc == \E r \in Reqs : Iniciar(r) \/ Continuar(r)
SpecConc == Init /\ [][NextConc]_vars

\* =============================================================== claims
Existe(id) == \E b \in brigadas : b.id = id
EsChecklist(r) == reqs[r].ruta = RutaChecklist
\* request r has ended with the checklist as its response
ChecklistDevuelto(r) ==
  EsChecklist(r) /\ reqs[r].pc = "done" /\ reqs[r].status = 200
\* the four role reads, the equipment read and the catalog read gave data
LecturasPaso2y3(r) ==
  /\ ~reqs[r].jefe.null
  /\ ~reqs[r].botanico.null
  /\ ~reqs[r].tecnico.null
  /\ ~reqs[r].coinvestigadores.null
  /\ ~reqs[r].equiposAsignados.null
  /\ ~reqs[r].equiposCatalogo.null
LecturasExitosas(r) == ~reqs[r].brigada.null /\ LecturasPaso2y3(r)

\* C1: every checklist returned for a brigade has cumple_minimo = true if and
\* only if the tables hold >= 1 jefe_brigada, >= 1 botanico, >= 1
\* tecnico_auxiliar, >= 2 coinvestigador rows of the brigade and every catalog
\* name among its assigned equipment types. (Requests are served in series
\* here, so the tables are those the evaluation read.)
C1_CumpleMinimoSiiConforme ==
  \A r \in Reqs :
    ChecklistDevuelto(r) =>
      (reqs[r].respuesta.v.cumple_minimo = "true" <=> Conforme(reqs[r].id))

\* C2: an evaluation of a brigade that does not exist ends with 404, carries
\* no checklist, and leaves no row of that brigade in validaciones_conformacion.
C2_BrigadaAusente404 ==
  \A r \in Reqs :
    (EsChecklist(r) /\ ~Existe(reqs[r].id)) =>
      /\ reqs[r].pc = "done" =>
           (reqs[r].status = 404 /\ reqs[r].checklist.null
              /\ reqs[r].respuesta = Dato([error |-> "Brigada no encontrada"]))
      /\ \A f \in validaciones_conformacion : f.brigada_id # reqs[r].id
C2_Witness ==
  \E r \in Reqs :
    /\ EsChecklist(r) /\ ~Existe(reqs[r].id)
    /\ reqs[r].pc = "done" /\ reqs[r].status = 404

\* a required read of request r failed: the brigade row exists and was not
\* obtained, or a later read came back without data
LecturaFallida(r) ==
  \/ Existe(reqs[r].id) /\ reqs[r].brigada.null
  \/ ~reqs[r].brigada.null /\ ~LecturasPaso2y3(r)

\* C3: an evaluation in which a required read failed ends with 500 and no
\* checklist; every checklist returned was computed from reads that all
\* succeeded.
C3_LecturaFallidaAborta ==
  \A r \in Reqs :
    (EsChecklist(r) /\ reqs[r].pc = "done") =>
      /\ LecturaFallida(r) => reqs[r].status = 500
      /\ reqs[r].status = 200 => LecturasExitosas(r)

\* the step in which request r's Paso 8 upsert fails
UpsertFallido(r) ==
  /\ reqs[r].pc = "paso8"
  /\ reqs'[r].pc = "done"
  /\ fallos' = fallos + 1

\* C4: when all reads succeeded and the Paso 8 upsert fails, the response is
\* still 200 with the computed checklist.
C4_UpsertFallidoDevuelveChecklist ==
  [][\A r \in Reqs :
       (UpsertFallido(r) /\ LecturasExitosas(r)) =>
         /\ reqs'[r].status = 200
         /\ reqs'[r].respuesta = reqs[r].checklist
         /\ ~reqs[r].checklist.null]_vars
C4_Witness ==
  \E r \in Reqs :
    /\ ChecklistDevuelto(r) /\ LecturasExitosas(r)
    /\ fallos = 1
    /\ \A f \in validaciones_conformacion : f.brigada_id # reqs[r].id

\* C5: when the Paso 8 upsert fails, the request has written a line to the
\* operator log by the time it completes.
C5_UpsertFallidoRegistrado ==
  [][\A r \in Reqs : UpsertFallido(r) => reqs'[r].consola # <<>>]_vars

\* the checklist request r would have been sent had the brigade row carried
\* training flag c, every other read being the same
ChecklistConFlag(r, c) ==
  ArmarChecklist(reqs[r].id,
                 [reqs[r].brigada.v EXCEPT !.capacitacion_completada = c],
                 reqs[r].jefe, reqs[r].botanico, reqs[r].tecnico,
                 reqs[r].coinvestigadores, reqs[r].equiposAsignados,
                 reqs[r].equiposCatalogo)
Flags == {"true", "false", "null"}

\* C6: cumple_minimo and estado_conformacion of a returned checklist are the
\* ones the evaluation yields for any other value of capacitacion_completada,
\* the other reads being equal.
C6_CapacitacionNoInfluye ==
  \A r \in Reqs :
    ChecklistDevuelto(r) =>
      \A c \in Flags :
        LET otra == ChecklistConFlag(r, c)
        IN /\ otra.cumple_minimo = reqs[r].respuesta.v.cumple_minimo
           /\ otra.estado_conformacion = reqs[r].respuesta.v.estado_conformacion
C6_Witness ==
  \E r \in Reqs :
    /\ ChecklistDevuelto(r)
    /\ reqs[r].respuesta.v.cumple_minimo = "true"
    /\ reqs[r].brigada.v.capacitacion_completada # "true"

\* the training flag of brigade id in table brigadas
FlagDe(id) == (CHOOSE b \in brigadas : b.id = id).capacitacion_completada

\* C7: a returned checklist has exactly one advertencia when the brigade's
\* training flag is false or unset, and none when it is true.
C7_UnaAdvertenciaSinCapacitacion ==
  \A r \in Reqs :
    ChecklistDevuelto(r) =>
      /\ FlagDe(reqs[r].id) \in {"false", "null"} =>
           Len(reqs[r].respuesta.v.advertencias) = 1
      /\ FlagDe(reqs[r].id) = "true" => reqs[r].respuesta.v.advertencias = <<>>
C7_Witness ==
  \E r \in Reqs :
    /\ ChecklistDevuelto(r)
    /\ FlagDe(reqs[r].id) = "false"
    /\ Len(reqs[r].respuesta.v.advertencias) = 1

\* C8: estado_conformacion of a returned checklist is "conforme" exactly when
\* cumple_minimo is true, and "en_progreso" otherwise.
C8_EstadoSigueCumpleMinimo ==
  \A r \in Reqs :
    ChecklistDevuelto(r) =>
      /\ reqs[r].respuesta.v.estado_conformacion \in {"conforme", "en_progreso"}
      /\ reqs[r].respuesta.v.estado_conformacion = "conforme"
           <=> reqs[r].respuesta.v.cumple_minimo = "true"
C8_Witness ==
  \E r \in Reqs :
    /\ ChecklistDevuelto(r)
    /\ reqs[r].respuesta.v.estado_conformacion = "conforme"

EsAsignarRol(r) == reqs[r].ruta = RutaAsignarRol
FilasDeUsuario(id, u) ==
  {f \in brigada_brigadistas : f.brigada_id = id /\ f.usuario_id = u}
ClaveUnica ==
  \A f, g \in brigada_brigadistas :
    (f.brigada_id = g.brigada_id /\ f.usuario_id = g.usuario_id) => f = g

\* C9: brigada_brigadistas never holds two rows with the same (brigada_id,
\* usuario_id), and after an asignar-rol call that succeeded the pair has
\* exactly one row, carrying the role of that call.
C9_UnaFilaPorUsuario ==
  /\ ClaveUnica
  /\ \A r \in Reqs :
       (EsAsignarRol(r) /\ reqs[r].pc = "done" /\ reqs[r].status = 200) =>
         FilasDeUsuario(reqs[r].id, reqs[r].body.v.usuario_id)
           = {[brigada_id |-> reqs[r].id,
               usuario_id |-> reqs[r].body.v.usuario_id,
               rol_en_brigada |-> reqs[r].body.v.rol_en_brigada]}
\* user 1, jefe_brigada since the start, has been made botanico and the table
\* still has one row per user
C9_Witness ==
  \E r \in Reqs :
    /\ EsAsignarRol(r) /\ reqs[r].pc = "done" /\ reqs[r].status = 200
    /\ reqs[r].body.v.usuario_id = 1
    /\ reqs[r].body.v.rol_en_brigada = "botanico"
    /\ Cardinality(brigada_brigadistas) = MaxUsuarios

RolInvalido(req) ==
  req.ruta = RutaAsignarRol /\ req.body.v.rol_en_brigada \notin RolesValidos

\* C10: an asignar-rol request with a role outside the enum is answered 400
\* in the step that receives it, before any store call, with every table
\* unchanged; no row of brigada_brigadistas carries a role outside the enum.
C10_RolInvalidoRechazado ==
  /\ [](\A f \in brigada_brigadistas : f.rol_en_brigada \in RolesValidos)
  /\ [](\A r \in Reqs :
          RolInvalido(reqs[r]) => (reqs[r].pc = "done" /\ reqs[r].status = 400))
  /\ [][\A r \in Reqs :
          (reqs'[r] # reqs[r] /\ RolInvalido(reqs'[r])) =>
            (UNCHANGED stores /\ UNCHANGED fallos)]_vars
C10_Witness ==
  \E r \in Reqs :
    RolInvalido(reqs[r]) /\ reqs[r].pc = "done" /\ reqs[r].status = 400

\* the equipment rows of brigade id
FilasEquipos(id) ==
  {j \in 1..Len(equipos_brigada) : equipos_brigada[j].brigada_id = id}
Faltan(id) == NombresCatalogo \ TiposAsignados(id)

\* C11: in a returned checklist, equipos_faltantes holds exactly the catalog
\* names with no equipos_brigada row of that tipo_equipo for the brigade, and
\* equipos_ifn.completado is true iff there is none; rows of a duplicated type
\* or of a type outside the catalog do not count.
C11_EquiposDiferenciaDeConjuntos ==
  \A r \in Reqs :
    ChecklistDevuelto(r) =>
      LET e == reqs[r].respuesta.v.validacion.equipos_ifn
      IN /\ SeqToSet(e.equipos_faltantes) = Faltan(reqs[r].id)
         /\ e.completado = Bool(Faltan(reqs[r].id) = {})
\* the catalog is covered by rows that include a duplicate or a foreign type
C11_Witness ==
  \E r \in Reqs :
    /\ ChecklistDevuelto(r)
    /\ NombresCatalogo # {}
    /\ Cardinality(FilasEquipos(reqs[r].id)) > Cardinality(NombresCatalogo)
    /\ reqs[r].respuesta.v.validacion.equipos_ifn.completado = "true"

\* C12: in a returned checklist, coinvestigadores.completado is false when the
\* brigade has 0 or 1 coinvestigador rows and true when it has 2 or more.
C12_UmbralCoinvestigadores ==
  \A r \in Reqs :
    ChecklistDevuelto(r) =>
      reqs[r].respuesta.v.validacion.coinvestigadores.completado
        = Bool(NumeroConRol(reqs[r].id, "coinvestigador") >= cantidad_minima)

\* C13: a checklist returned for a brigade without jefe_brigada rows has
\* cumple_minimo = false and the missing-lead entry as its first error.
C13_SinJefeNoCumple ==
  \A r \in Reqs :
    (ChecklistDevuelto(r) /\ NumeroConRol(reqs[r].id, "jefe_brigada") = 0) =>
      /\ reqs[r].respuesta.v.cumple_minimo = "false"
      /\ reqs[r].respuesta.v.errores # <<>>
      /\ Head(reqs[r].respuesta.v.errores).paso = 1

Pasos(s) == [i \in 1..Len(s) |-> s[i].paso]
\* brigade id has no role rows, no equipment rows, and training not completed
BrigadaVacia(id) ==
  /\ \A f \in brigada_brigadistas : f.brigada_id # id
  /\ FilasEquipos(id) = {}
  /\ FlagDe(id) \in {"false", "null"}
CincoErroresUnaAdvertencia(c) ==
  /\ c.estado_conformacion = "en_progreso"
  /\ Pasos(c.errores) = <<1, 2, 3, 4, 5>>
  /\ Len(c.advertencias) = 1

\* C14 (as stated): a checklist returned for a brigade with no role rows, no
\* equipment rows and training not completed is en_progreso with the five
\* errors lead, botanist, technician, co-investigators, equipment in that
\* order, and one warning.
C14_BrigadaVaciaCincoErrores ==
  \A r \in Reqs :
    (ChecklistDevuelto(r) /\ BrigadaVacia(reqs[r].id)) =>
      CincoErroresUnaAdvertencia(reqs[r].respuesta.v)
\* C14 (amended): the same, when the equipment catalog is not empty; with an
\* empty catalog nothing is missing and the equipment error is absent.
C14_BrigadaVaciaCatalogoNoVacio ==
  \A r \in Reqs :
    (ChecklistDevuelto(r) /\ BrigadaVacia(reqs[r].id) /\ NombresCatalogo # {}) =>
      CincoErroresUnaAdvertencia(reqs[r].respuesta.v)
C14_Witness ==
  \E r \in Reqs :
    /\ ChecklistDevuelto(r) /\ BrigadaVacia(reqs[r].id) /\ NombresCatalogo # {}
    /\ FlagDe(reqs[r].id) = "false"
    /\ Len(reqs[r].respuesta.v.errores) = 5

\* one jefe, one botanico, one tecnico, two coinvestigadores, the whole
\* catalog assigned, training completed
BrigadaCompleta(id) ==
  /\ NumeroConRol(id, "jefe_brigada") = 1
  /\ NumeroConRol(id, "botanico") = 1
  /\ NumeroConRol(id, "tecnico_auxiliar") = 1
  /\ NumeroConRol(id, "coinvestigador") = 2
  /\ NombresCatalogo \subseteq TiposAsignados(id)
  /\ FlagDe(id) = "true"

\* C15: a checklist returned for such a brigade is conforme and its errores,
\* advertencias and acciones_pendientes are empty.
C15_BrigadaCompletaConforme ==
  \A r \in Reqs :
    (ChecklistDevuelto(r) /\ BrigadaCompleta(reqs[r].id)) =>
      /\ reqs[r].respuesta.v.estado_conformacion = "conforme"
      /\ reqs[r].respuesta.v.errores = <<>>
      /\ reqs[r].respuesta.v.advertencias = <<>>
      /\ reqs[r].respuesta.v.acciones_pendientes = <<>>

Creciente(s) == \A i, j \in 1..Len(s) : i < j => s[i] < s[j]

\* C16: in a returned checklist, acciones_pendientes has one entry per entry of
\* errores and then one per entry of advertencias, for the same requirements
\* in the same order; its paso numbers increase strictly.
C16_AccionesSiguenErrores ==
  \A r \in Reqs :
    ChecklistDevuelto(r) =>
      LET c == reqs[r].respuesta.v
      IN /\ Pasos(c.acciones_pendientes) = Pasos(c.errores) \o Pasos(c.advertencias)
         /\ Creciente(Pasos(c.acciones_pendientes))
         /\ Len(c.acciones_pendientes) = Len(c.errores) + Len(c.advertencias)
C16_Witness ==
  \E r \in Reqs :
    /\ ChecklistDevuelto(r)
    /\ Len(reqs[r].respuesta.v.errores) >= 2
    /\ Len(reqs[r].respuesta.v.advertencias) = 1
    /\ Len(reqs[r].respuesta.v.acciones_pendientes)
         = Len(reqs[r].respuesta.v.errores) + 1

\* the requirements of brigade id that the tables satisfy
Satisfechos(id) ==
  {rol \in RolesValidos \ {"coinvestigador"} : NumeroConRol(id, rol) >= 1}
    \cup (IF NumeroConRol(id, "coinvestigador") >= cantidad_minima
            THEN {"coinvestigador"} ELSE {})
    \cup (IF NombresCatalogo \subseteq TiposAsignados(id) THEN {"equipos"} ELSE {})
    \cup (IF FlagDe(id) = "true" THEN {"capacitacion"} ELSE {})
SatisfechosDespues(id) == Satisfechos(id)'

\* C17: the caller that keeps evaluating and executing the first pending
\* action, with any existing user for a role, eventually gets a checklist with
\* estado_conformacion = "conforme"; and no step of an executed action takes
\* away a requirement the tables satisfied before it.
C17_ClienteConverge ==
  /\ <>(UltimoChecklist /\ reqs[1].respuesta.v.estado_conformacion = "conforme")
  /\ [][Satisfechos(BrigadaCliente) \subseteq SatisfechosDespues(BrigadaCliente)]_vars

EsAsignarBrigada(r) == reqs[r].ruta = RutaAsignarBrigada

\* C18: a row enters asignaciones_conglomerados only for a brigade that is
\* conformant by the evaluator's rule when it is inserted; an asignar-brigada
\* request for an existing brigade that is not conformant is refused (400, or
\* 500 when the store fails) and inserts no row.
C18_SoloBrigadaConforme ==
  /\ [][asignaciones_conglomerados' # asignaciones_conglomerados =>
          /\ Len(asignaciones_conglomerados') = Len(asignaciones_conglomerados) + 1
          /\ Conforme(asignaciones_conglomerados'[Len(asignaciones_conglomerados')].brigada_id)]_vars
  /\ [](\A r \in Reqs :
          (EsAsignarBrigada(r) /\ reqs[r].pc = "done"
             /\ Existe(reqs[r].body.v.brigada_id)
             /\ ~Conforme(reqs[r].body.v.brigada_id)) =>
            reqs[r].status \in {400, 500})

\* C19: validaciones_conformacion changes only in the Paso 8 step of an
\* evaluation whose reads all succeeded and which is answered 200; no step of
\* another route, and no evaluation answered 404 or 500, changes it.
C19_SoloElEvaluadorEscribe ==
  [][validaciones_conformacion' # validaciones_conformacion =>
       \E r \in Reqs :
         /\ EsChecklist(r) /\ reqs[r].pc = "paso8"
         /\ LecturasExitosas(r)
         /\ reqs'[r].pc = "done" /\ reqs'[r].status = 200]_vars

FilasDeValidacion(tabla, id) == {f \in tabla : f.brigada_id = id}
\* the record request r's evaluation computed
RegistroDe(req) == FilaValidacion(req.id, req.checklist.v.validacion, req.user)

\* C20: with evaluations overlapping, a brigade never has two rows of
\* validaciones_conformacion, and every change of the table replaces the whole
\* row of one brigade by the record one evaluation computed, leaving the other
\* rows as they were; so the row is always the record of the evaluation whose
\* upsert was applied last.
C20_UltimaEscrituraGana ==
  /\ [](\A f, g \in validaciones_conformacion : f.brigada_id = g.brigada_id => f = g)
  /\ [][validaciones_conformacion' # validaciones_conformacion =>
          \E r \in Reqs :
            /\ EsChecklist(r) /\ reqs[r].pc = "paso8" /\ reqs'[r].pc = "done"
            /\ FilasDeValidacion(validaciones_conformacion', reqs[r].id)
                 = {RegistroDe(reqs[r])}
            /\ \A id \in BrigadaIds \ {reqs[r].id} :
                 FilasDeValidacion(validaciones_conformacion', id)
                   = FilasDeValidacion(validaciones_conformacion, id)]_vars
\* two evaluations of one brigade have finished with different records, and
\* the table holds one of them
C20_Witness ==
  \E r, q \in Reqs :
    /\ r # q /\ ChecklistDevuelto(r) /\ ChecklistDevuelto(q)
    /\ reqs[r].id = reqs[q].id
    /\ RegistroDe(reqs[r]) # RegistroDe(reqs[q])
    /\ RegistroDe(reqs[r]).tiene_jefe # RegistroDe(reqs[q]).tiene_jefe
    /\ validaciones_conformacion = {RegistroDe(reqs[q])}

\* the step in which request r's Paso 8 upsert is applied
UpsertAplicado(r) ==
  /\ EsChecklist(r) /\ reqs[r].pc = "paso8"
  /\ reqs'[r].pc = "done"
  /\ fallos' = fallos

DestinoAusente(req) ==
  /\ req.ruta = RutaAsignarRol
  /\ req.body.v.rol_en_brigada \in RolesValidos
  /\ (~Existe(req.id) \/ req.body.v.usuario_id \notin Usuarios)

\* C22: such a request is answered 404, and no step of it changes
\* brigada_brigadistas.
C22_DestinoAusente404 ==
  /\ [](\A r \in Reqs :
          (DestinoAusente(reqs[r]) /\ reqs[r].pc = "done") => reqs[r].status = 404)
  /\ [][\A r \in Reqs :
          (DestinoAusente(reqs'[r]) /\ reqs'[r] # reqs[r]) =>
            UNCHANGED brigada_brigadistas]_vars
\* the brigade exists and the user does not
C22_Witness ==
  \E r \in Reqs :
    /\ DestinoAusente(reqs[r]) /\ Existe(reqs[r].id)
    /\ reqs[r].pc = "done" /\ reqs[r].status = 404
    /\ reqs[r].respuesta = Dato([error |-> "Usuario no encontrado"])

\* the checklist the reads held by request req aggregate to
ChecklistDeLecturas(req) ==
  ArmarChecklist(req.id, req.brigada.v, req.jefe, req.botanico, req.tecnico,
                 req.coinvestigadores, req.equiposAsignados, req.equiposCatalogo)

\* C23: an evaluation has a checklist only once all its reads are over (it is
\* at Paso 8 or has answered); the checklist appears in the step that ends the
\* last read, and it is the aggregation of the results of the six reads.
C23_AgregacionTrasLecturas ==
  /\ [](\A r \in Reqs :
          (EsChecklist(r) /\ ~reqs[r].checklist.null) =>
            /\ reqs[r].pc \in {"paso8", "done"}
            /\ reqs[r].checklist.v = ChecklistDeLecturas(reqs[r]))
  /\ [][\A r \in Reqs :
          (reqs'[r].ruta = RutaChecklist /\ reqs[r].checklist.null
             /\ ~reqs'[r].checklist.null) =>
            reqs[r].pc = "paso3_catalogo"]_vars
\* an evaluation is at Paso 8 with its six reads done while another request
\* is in flight
C23_Witness ==
  \E r, q \in Reqs :
    /\ r # q
    /\ EsChecklist(r) /\ reqs[r].pc = "paso8" /\ LecturasExitosas(r)
    /\ ~EnReposo(q)

EsCapacitacion(req) == req.ruta = RutaCapacitacion
SinCampo(req) ==
  EsCapacitacion(req) /\ req.body.v.capacitacion_completada = "undefined"

\* C25: table brigadas (the training flags) changes only in the update step of
\* a PUT /brigadas/:id/capacitacion that carries the field; evaluation, role
\* and equipment steps leave it as it is; a PUT without the field is answered
\* 400 and changes nothing.
C25_SoloPutCambiaCapacitacion ==
  /\ [][brigadas' # brigadas =>
          \E r \in Reqs :
            /\ EsCapacitacion(reqs[r]) /\ reqs[r].pc = "cap_update"
            /\ reqs'[r].pc = "done"
            /\ reqs[r].body.v.capacitacion_completada \in {"true", "false"}]_vars
  /\ [](\A r \in Reqs :
          SinCampo(reqs[r]) => (reqs[r].pc = "done" /\ reqs[r].status = 400))
  /\ [][\A r \in Reqs :
          (SinCampo(reqs'[r]) /\ reqs'[r] # reqs[r]) => UNCHANGED stores]_vars
C25_Witness ==
  \E r \in Reqs :
    /\ SinCampo(reqs[r]) /\ Existe(reqs[r].id)
    /\ reqs[r].pc = "done" /\ reqs[r].status = 400

\* the rows a role read of brigade id returns when it succeeds
RolesEnTabla(id, rol) ==
  {f \in brigada_brigadistas : f.brigada_id = id /\ f.rol_en_brigada = rol}
NuloO(dato, contenido) == dato.null \/ dato.v = contenido

\* C26: no step of an evaluation changes brigadas, brigada_brigadistas,
\* equipos_brigada, catalogo_equipos_ifn (or asignaciones_conglomerados); and
\* the checklist returned is the aggregation of reads of those tables alone,
\* whatever validaciones_conformacion held.
C26_EvaluacionSoloEscribeValidaciones ==
  /\ [][\A r \in Reqs :
          (reqs'[r] # reqs[r] /\ reqs'[r].ruta = RutaChecklist) =>
            UNCHANGED <<brigadas, brigada_brigadistas, equipos_brigada,
                        catalogo_equipos_ifn, asignaciones_conglomerados>>]_vars
  /\ [](\A r \in Reqs :
          ChecklistDevuelto(r) =>
            /\ reqs[r].respuesta.v = ChecklistDeLecturas(reqs[r])
            /\ reqs[r].brigada.v \in brigadas
            /\ NuloO(reqs[r].jefe, RolesEnTabla(reqs[r].id, "jefe_brigada"))
            /\ NuloO(reqs[r].botanico, RolesEnTabla(reqs[r].id, "botanico"))
            /\ NuloO(reqs[r].tecnico, RolesEnTabla(reqs[r].id, "tecnico_auxiliar"))
            /\ NuloO(reqs[r].coinvestigadores, RolesEnTabla(reqs[r].id, "coinvestigador"))
            /\ NuloO(reqs[r].equiposAsignados, EquiposDe(reqs[r].id))
            /\ NuloO(reqs[r].equiposCatalogo, catalogo_equipos_ifn))
\* the brigade's record says tiene_jefe (conformar wrote it, and this
\* evaluation's upsert failed); the checklist reports the lead missing
C26_Witness ==
  \E r \in Reqs :
    /\ ChecklistDevuelto(r)
    /\ \E f \in validaciones_conformacion :
         f.brigada_id = reqs[r].id /\ f.tiene_jefe = "true"
    /\ reqs[r].respuesta.v.validacion.jefe_brigada.completado = "false"

Bloqueantes ==
  {"jefe_brigada", "botanico", "tecnico_auxiliar", "coinvestigadores", "equipos_ifn"}
NoCumplidos(v) == {x \in Bloqueantes : v[x].completado # "true"}

\* C27: in a returned checklist cumple_minimo is true iff errores is empty,
\* and errores has one entry per blocking requirement whose completado is not
\* true.
C27_ErroresSegunRequisitos ==
  \A r \in Reqs :
    ChecklistDevuelto(r) =>
      LET c == reqs[r].respuesta.v
      IN /\ c.cumple_minimo = "true" <=> c.errores = <<>>
         /\ Len(c.errores) = Cardinality(NoCumplidos(c.validacion))
\* a brigade on its way: some requirements met, three not
C27_Witness ==
  \E r \in Reqs :
    /\ ChecklistDevuelto(r)
    /\ Len(reqs[r].respuesta.v.errores) = 3
    /\ reqs[r].respuesta.v.validacion.jefe_brigada.completado = "true"

Miembros(id) ==
  {f.usuario_id : f \in {g \in brigada_brigadistas : g.brigada_id = id}}
SumaRoles(id) ==
  NumeroConRol(id, "jefe_brigada") + NumeroConRol(id, "botanico")
    + NumeroConRol(id, "tecnico_auxiliar") + NumeroConRol(id, "coinvestigador")
\* user u is the only holder of jefe_brigada, botanico or tecnico_auxiliar
UnicoTitular(id, u) ==
  \E f \in brigada_brigadistas :
    /\ f.brigada_id = id /\ f.usuario_id = u
    /\ f.rol_en_brigada # "coinvestigador"
    /\ NumeroConRol(id, f.rol_en_brigada) = 1
ConformeDespues(id) == Conforme(id)'

\* C28: a brigade's four role counts add up to its number of distinct users; a
\* conformant brigade has at least 5 of them; and the upsert that gives
\* another role to the only holder of a single-holder role of a conformant
\* brigade leaves it non-conformant.
C28_UnRolPorMiembro ==
  /\ [](\A id \in BrigadaIds :
          /\ SumaRoles(id) = Cardinality(Miembros(id))
          /\ Conforme(id) => Cardinality(Miembros(id)) >= 3 + cantidad_minima)
  /\ [][\A r \in Reqs :
          (/\ EsAsignarRol(r) /\ reqs[r].pc = "ar_upsert"
           /\ brigada_brigadistas' # brigada_brigadistas
           /\ Conforme(reqs[r].id)
           /\ UnicoTitular(reqs[r].id, reqs[r].body.v.usuario_id)) =>
            ~ConformeDespues(reqs[r].id)]_vars
\* the brigade was conformant at the start; its only jefe_brigada is now
\* botanico
C28_Witness ==
  \E r \in Reqs :
    /\ EsAsignarRol(r) /\ reqs[r].pc = "done" /\ reqs[r].status = 200
    /\ reqs[r].body.v = [usuario_id |-> 1, rol_en_brigada |-> "botanico"]
    /\ \E b \in brigadas : b.id = reqs[r].id /\ b.cumple_requisitos_minimos = "true"
    /\ ~Conforme(reqs[r].id)
    /\ Cardinality(Miembros(reqs[r].id)) = MaxUsuarios

EnCurso(r) == EsChecklist(r) /\ reqs[r].pc \notin {"idle", "done"}

\* C30: an evaluation has no response while it runs and exactly one when it
\* ends: 200 with the checklist, 404 or 500; the response of an ended
\* evaluation never changes; and every evaluation that runs ends.
C30_UnaRespuesta ==
  /\ [](\A r \in Reqs :
          EsChecklist(r) =>
            /\ reqs[r].pc # "done" => (reqs[r].status = 0 /\ reqs[r].respuesta.null)
            /\ reqs[r].pc = "done" =>
                 (reqs[r].status \in {200, 404, 500} /\ ~reqs[r].respuesta.null)
            /\ reqs[r].status = 200 =>
                 (reqs[r].respuesta = reqs[r].checklist /\ ~reqs[r].checklist.null))
  /\ [][\A r \in Reqs :
          (EsChecklist(r) /\ reqs[r].pc = "done" /\ reqs'[r].pc = "done"
             /\ reqs'[r].ruta = RutaChecklist) =>
            reqs'[r] = reqs[r]]_vars
  /\ \A r \in Reqs : EnCurso(r) ~> (EsChecklist(r) /\ reqs[r].pc = "done")
\* an evaluation ended in the catch block
C30_Witness ==
  \E r \in Reqs :
    /\ EsChecklist(r) /\ reqs[r].pc = "done" /\ reqs[r].status = 500
    /\ reqs[r].consola # <<>> /\ reqs[r].checklist.null

EsValidar(q) == reqs[q].ruta = RutaValidar
\* request r is an evaluation and q an equipos/validar, both answered 200
\* from the same catalog and the same equipment rows
MismasLecturas(r, q) ==
  /\ ChecklistDevuelto(r)
  /\ EsValidar(q) /\ reqs[q].pc = "done" /\ reqs[q].status = 200
  /\ reqs[r].equiposCatalogo = reqs[q].equiposCatalogo
  /\ reqs[r].equiposAsignados = reqs[q].equiposAsignados

\* C29: an evaluation and an equipos/validar request that read the same
\* catalog and the same equipment rows agree: completos is
\* equipos_ifn.completado and faltantes is equipos_faltantes, name by name in
\* the same order.
C29_ValidarCoincideConChecklist ==
  \A r, q \in Reqs :
    MismasLecturas(r, q) =>
      LET e == reqs[r].respuesta.v.validacion.equipos_ifn
          v == reqs[q].respuesta.v
      IN /\ v.completos = e.completado
         /\ v.faltantes = e.equipos_faltantes
\* both report the whole catalog missing, in catalog order
C29_Witness ==
  \E r, q \in Reqs :
    /\ MismasLecturas(r, q)
    /\ reqs[r].id = reqs[q].id /\ fallos = 0
    /\ reqs[q].respuesta.v = [completos |-> "false", faltantes |-> <<"gps", "cinta">>]

CumpleDevuelto(r) == reqs[r].respuesta.v.cumple_minimo

\* C24: the reads of an evaluation are separate steps, and a reassignment of
\* the only jefe_brigada to botanico can run between them. The brigade of this
\* specification satisfies the rule at no instant (it has no botanico before
\* the reassignment and no jefe_brigada after it, and four members
\* throughout); the witness is a state where, with no store failure, one
\* evaluation has returned cumple_minimo = true and an overlapping evaluation
\* of the same brigade has returned cumple_minimo = false.
C24_NuncaConforme ==
  /\ \A id \in BrigadaIds : ~Conforme(id)
  /\ Cardinality(Miembros("b1")) = MaxUsuarios - 1
  /\ NumeroConRol("b1", "jefe_brigada") + NumeroConRol("b1", "botanico") = 1
C24_Witness ==
  \E r, q \in Reqs :
    /\ fallos = 0
    /\ ChecklistDevuelto(r) /\ ChecklistDevuelto(q)
    /\ reqs[r].id = "b1" /\ reqs[q].id = "b1"
    /\ CumpleDevuelto(r) = "true" /\ CumpleDevuelto(q) = "false"
    /\ reqs[r].respuesta.v.validacion.jefe_brigada.cantidad = 1
    /\ reqs[r].respuesta.v.validacion.botanico.cantidad = 1
    /\ reqs[q].respuesta.v.validacion.jefe_brigada.cantidad = 0
    /\ \E f \in validaciones_conformacion : f.brigada_id = "b1"


====
